---- MODULE Spec2Model ----
(***************************************************************************)
(* The OVH API driver of ironic: the power interface's set_power_state     *)
(* (power.py), the signed transport's lazy clock delta and the requests it *)
(* builds, signs and logs (ovh_base.py), the construction of the client,   *)
(* its resolution of boot targets (client.py) and validate.                *)
(***************************************************************************)
EXTENDS Integers, Sequences, FiniteSets, TLC

VARIABLES
    \* ---- OvhApiPower.set_power_state: arguments, locals, position
    pc,                \* position of the one set_power_state call (exclusive lock)
    power_state,       \* argument power_state
    timeout,           \* argument timeout
    task_id,           \* local task_id
    status,            \* local status (last fetched task status)
    node_power_state,  \* task.node.power_state
    \* ---- the remote API, for the one server of the node
    bootId,            \* the server's bootId
    bootList,          \* the ipxeCustomerScript boot ids, in listing order
    broken,            \* boot ids whose detail GET answers with an HTTP error
    remoteTask,        \* the server's latest task: [taskId, status]
    \* ---- history of the current call
    calls,             \* remote requests issued by the current call, in order
    prevBootId,        \* the server's bootId when the current call started
    prevPowerState,    \* task.node.power_state when the current call started
    slept,             \* seconds slept since the last status fetch
    lock,              \* the holder of the node's exclusive lock
    gps_ret,           \* what the last get_power_state call returned
    \* ---- Api / BaseClient instances and the threads calling them
    time_delta_,       \* per instance: Api._time_delta
    built,             \* per instance: "new", "ready" or "failed"
    tpc,               \* per thread: position inside Api._call
    tinst,             \* per thread: the instance it is calling
    tmeasured,         \* per thread: the delta its own /auth/time query gave
    tdelta,            \* per thread: what time_delta() returned to _call
    ncalls,            \* per thread: calls started so far
    nMeasure,          \* per instance: GETs of /auth/time issued
    nStore,            \* per instance: assignments to _time_delta
    measureFailed,     \* per instance: a /auth/time measurement failed
    stamps,            \* per instance: deltas used to timestamp sent requests
    nSent,             \* per instance: requests sent (after the timestamp is built)
    \* ---- one Api instance making one call at a time, in full detail
    clock,             \* int(time.time()) of this computer
    nticks,            \* advances of the clock so far
    consumer_key,      \* Api.consumer_key
    debug,             \* Api.debug
    py,                \* the interpreter running the module: "py2" or "py3"
    s_delta,           \* Api._time_delta of that instance
    s_pc,              \* position inside _call
    s_args,            \* arguments of the current _call: [method, path, content]
    s_t0,              \* int(time.time()) read at ovh_base.py:83
    mRemote,           \* int(result.text) of the /auth/time answer
    mLocal,            \* int(time.time()) read when the delta was computed
    s_sent,            \* the last request handed to the session
    s_log,             \* the debug lines of the last request
    s_raised,          \* the exception the last _call raised
    \* ---- BaseClient resolving boot targets of one server, one call at a time
    r_list,            \* remote: the ipxeCustomerScript boot ids, in listing order
    r_broken,          \* remote: boot ids whose detail GET answers an HTTP error
    r_disks,           \* remote: the harddisk boot ids, in listing order
    r_changes,         \* remote: changes of the listing so far
    r_pc,              \* position inside the current call
    r_fn,              \* the method called
    r_script,          \* argument script_name
    result_,           \* local result: the listing as it was received
    r_i,               \* position of boot_id in the listing being iterated
    r_reqs,            \* requests the current call has issued, in order
    r_last,            \* the last request of the call and how it went
    r_skipped,         \* boot ids the call logged as skipped
    r_ret,             \* what the call returned or raised
    r_prev,            \* per script name: outcome of an earlier call, no change since
    r_clean,           \* the remote listing has not changed since the call started
    \* ---- validate of the power and of the management interface
    v_servers,         \* remote: the servers of the account, as /dedicated/server lists them
    v_pc,              \* position inside the current validate call
    v_iface,           \* the interface whose validate is running
    v_name,            \* task.node.driver_info.get('server_name')
    v_reqs,            \* requests the current call has issued, in order
    v_listed,          \* the listing GET of the current call was answered
    v_ret,             \* what the call returned or raised
    \* ---- the account on the remote API
    meScripts,         \* names of the scripts /me/ipxeScript holds
    \* ---- BaseClient gateway operations, one call at a time
    g_pc,              \* position inside the current gateway call
    g_op,              \* the method called
    g_reqs,            \* verbs of the requests the current call has sent, in order
    g_err,             \* the exception the transport raised to the current call
    g_logged,          \* the current call logged an error
    g_raised,          \* the exception the current call raised to its caller
    g_ret,             \* what the current call returned
    g_hist,            \* the calls finished so far
    \* ---- OvhApiManagement boot device calls on the node's server
    m_pc,              \* position inside the current management call
    m_fn,              \* the method called
    m_device,          \* argument device
    m_target,          \* the boot id the client resolved
    m_reqs,            \* requests the current call has issued, in order
    m_ret,             \* what the call returned or raised
    m_disks,           \* remote: the harddisk boot ids, in listing order
    m_diskIds,         \* local disk_boot_ids of is_set_to_boot_on_disk
    m_prevBoot,        \* the server's bootId when the current call started
    m_lastSet,         \* device and target of the last set_boot_device that returned
    m_changes          \* remote: changes of bootId made by others so far

powerVars == <<pc, power_state, timeout, task_id, status, node_power_state,
               bootId, bootList, broken, remoteTask, calls, prevBootId,
               prevPowerState, slept, lock, gps_ret>>
clientVars == <<time_delta_, built, tpc, tinst, tmeasured, tdelta, ncalls,
                nMeasure, nStore, measureFailed, stamps, nSent>>
signVars == <<clock, nticks, consumer_key, debug, py, s_delta, s_pc, s_args,
              s_t0, mRemote, mLocal, s_sent, s_log, s_raised>>
scanVars == <<r_list, r_broken, r_disks, r_changes, r_pc, r_fn, r_script,
              result_, r_i, r_reqs, r_last, r_skipped, r_ret, r_prev, r_clean>>
validateVars == <<v_servers, v_pc, v_iface, v_name, v_reqs, v_listed, v_ret>>
accountVars == <<meScripts>>
gatewayVars == <<g_pc, g_op, g_reqs, g_err, g_logged, g_raised, g_ret, g_hist>>
mgmtVars == <<m_pc, m_fn, m_device, m_target, m_reqs, m_ret, m_disks,
              m_diskIds, m_prevBoot, m_lastSet, m_changes>>
extVars == <<signVars, scanVars, validateVars, accountVars, gatewayVars, mgmtVars>>
vars == <<powerVars, clientVars, extVars>>

None == "None"

(***************************************************************************)
(* ironic.common.states, as power.py uses them.                            *)
(***************************************************************************)
POWER_ON == "power on"
POWER_OFF == "power off"
REBOOT == "rebooting"
SOFT_REBOOT == "soft rebooting"
ERROR == "error"

\* base.PowerInterface.get_supported_power_states, called at power.py:62
get_supported_power_states == {POWER_ON, POWER_OFF, REBOOT}

\* CONF.ovhapi.poweroff_script and CONF.ovhapi.boot_script
poweroff_script == "poweroff.ipxe"
boot_script == "boot.ipxe"

(***************************************************************************)
(* The remote inventory of the server: one disk target and three network   *)
(* script targets; kernel is the script name in a target's detail record.  *)
(***************************************************************************)
BootIds == {"D1", "O1", "B1", "P1"}
kernel == [b \in BootIds |->
             CASE b = "O1" -> "other.ipxe"
               [] b = "B1" -> boot_script
               [] b = "P1" -> poweroff_script
               [] OTHER -> ""]
Listings == { <<"O1", "B1", "P1">>, <<"P1", "B1">>, <<"O1", "P1">>, <<"O1">> }
BrokenSets == { {}, {"O1"}, {"B1"} }
TaskIds == {"T1", "T2"}

InProgress == {"init", "todo", "doing"}
ErrorTerminal == {"ovhError", "customerError"}
SuccessTerminal == {"done", "cancelled"}
Statuses == InProgress \cup ErrorTerminal \cup SuccessTerminal

\* the remote task only moves forward: init, todo, doing, then a terminal status
Rank(s) == CASE s = "init" -> 0 [] s = "todo" -> 1 [] s = "doing" -> 2 [] OTHER -> 3

NotFound == "NotFound"

\* no task has been created for the server yet
NoTask == [taskId |-> None, status |-> None]

\* BaseClient.get_ipxe_script_id: the first listed id whose detail can be
\* fetched and whose kernel equals script_name; NotFound after the whole list
RECURSIVE get_ipxe_script_id(_, _, _)
get_ipxe_script_id(result, brk, script_name) ==
    IF result = <<>> THEN NotFound
    ELSE LET boot_id == Head(result) IN
         IF boot_id \in brk
         THEN get_ipxe_script_id(Tail(result), brk, script_name)
         ELSE IF kernel[boot_id] = script_name
              THEN boot_id
              ELSE get_ipxe_script_id(Tail(result), brk, script_name)

\* client.set_boot_script(server_name, script): resolves the script to a boot
\* target of the server, which it then sets
set_boot_script(script) == get_ipxe_script_id(bootList, broken, script)

\* client.reboot_server(server_name): the response holds the task created
reboot_server(tid) == [taskId |-> tid, status |-> "init"]

\* client.get_task(server_name, task_id): the response holds the task
get_task(tid) == remoteTask

\* the script set_power_state passes to set_boot_script (power.py:71-79)
ScriptFor_AlwaysBoot(ps) == boot_script
ScriptFor(ps) == IF ps = POWER_OFF THEN poweroff_script ELSE boot_script

\* the classification of a fetched status in the poll loop (power.py:104-113)
Classify_ErrorAsDone(s) ==
    IF s \notin InProgress THEN "done" ELSE "polling"
Classify_DoneAsError(s) ==
    IF s \notin InProgress THEN "error" ELSE "polling"
Classify_DoneKeepsPolling(s) ==
    IF s \in ErrorTerminal THEN "error" ELSE "polling"
Classify(s) ==
    IF s \in {"ovhError", "customerError"} THEN "error"
    ELSE IF s \notin {"init", "todo", "doing"} THEN "done"
    ELSE "polling"

\* the exits of the "while True" loop (power.py:94, 108, 113): a break on a
\* classified terminal status, and nothing else; timeout is never read
Break_OnTimeout(cls, to) == cls # "polling" \/ to # None
Break(cls, to) == cls # "polling"

\* the order of the remote steps of set_power_state (power.py:70-98)
StepAfter_RebootFirst(step) ==
    CASE step = "enter" -> "reboot"
      [] step = "reboot" -> "set_boot"
      [] step = "set_boot" -> "sleep"
StepAfter_NoSleep(step) ==
    CASE step = "enter" -> "set_boot"
      [] step = "set_boot" -> "reboot"
      [] step = "reboot" -> "get_task"
StepAfter(step) ==
    CASE step = "enter" -> "set_boot"
      [] step = "set_boot" -> "reboot"
      [] step = "reboot" -> "sleep"

\* power.py:62: the test of the requested state against the supported ones
Supported_Any(ps, supported) == TRUE
Supported(ps, supported) == ps \in supported

\* power.py:75-87: task.node.power_state after the reboot request; line 87
\* is reached only when nothing raised
MarkReboot_Always(outcome, cur) == REBOOT
MarkReboot(outcome, cur) == IF outcome = "ok" THEN REBOOT ELSE cur

\* power.py:104-113: task.node.power_state after a classified status
FinalState_DoneKeepsReboot(cls, ps, cur) ==
    IF cls = "error" THEN ERROR ELSE cur
FinalState(cls, ps, cur) ==
    CASE cls = "error" -> ERROR
      [] cls = "done" -> ps
      [] OTHER -> cur

\* power.py:101: task_id is read again from every status response
NextTaskId_FromStatus(content) == content.status
NextTaskId(content) == content.taskId

\* power.py:95: time.sleep(3)
poll_interval == 3

\* task_manager.require_exclusive_lock (power.py:55, 116): the caller's task
\* holds the node's exclusive lock, which is granted to one holder at a time
CanAcquire_Always(holder) == TRUE
CanAcquire(holder) == holder = None

\* power.py:52: get_power_state returns this list
get_power_state == [type |-> "list", items |-> <<POWER_OFF, POWER_ON, REBOOT>>]
NoReturn == [type |-> None, items |-> <<>>]

\* the request log: a repeated fetch that answers the same in-progress status
\* is kept once, so that the unbounded poll loop has finitely many logs
Record(e) ==
    IF /\ calls # <<>>
       /\ calls[Len(calls)] = e
       /\ e.op = "get_task"
       /\ e.res \in InProgress
    THEN calls
    ELSE Append(calls, e)

Req(op, arg, ok, res) == [op |-> op, arg |-> arg, ok |-> ok, res |-> res]

(***************************************************************************)
(* Instances and threads of the transport.                                 *)
(***************************************************************************)
\* OvhApiPower.__init__ and OvhApiManagement.__init__ each build a BaseClient
Instances == {"power", "management"}
Workers == {"w1", "w2"}
Threads == {"loader"} \cup Workers
\* what int(result.text) - int(time.time()) can give at two different moments
Deltas == {100, 101}
MaxCallsPerThread == 1

\* Api.__init__: self._time_delta = None
NoDelta == <<>>

\* Api.time_delta: "if self._time_delta is None" (ovh_base.py:75)
NeedsMeasure_Always(d) == TRUE
NeedsMeasure(d) == d = NoDelta

\* BaseClient.__init__ ends with a call of the API, _check_ipxe_script_exists
\* (client.py:37)
CtorChecks_Skipped == FALSE
CtorChecks == TRUE

\* BaseClient._check_ipxe_script_exists lets every exception of the call out
\* of the constructor (client.py:71-77): no instance exists after a failure
CtorOutcome_Swallowed(ok) == "ready"
CtorOutcome(ok) == IF ok THEN "ready" ELSE "failed"

PowerInit ==
    /\ pc = "idle"
    /\ power_state = None
    /\ timeout = None
    /\ task_id = None
    /\ status = None
    /\ node_power_state \in {None, POWER_ON, POWER_OFF}
    /\ bootId \in BootIds
    /\ bootList \in Listings
    /\ broken \in BrokenSets
    /\ remoteTask = NoTask
    /\ calls = <<>>
    /\ prevBootId = None
    /\ prevPowerState = None
    /\ slept = 0
    /\ lock = None
    /\ gps_ret = NoReturn

ClientIdle ==
    /\ time_delta_ = [i \in Instances |-> NoDelta]
    /\ built = [i \in Instances |-> "new"]
    /\ tpc = [t \in Threads |-> "idle"]
    /\ tinst = [t \in Threads |-> None]
    /\ tmeasured = [t \in Threads |-> NoDelta]
    /\ tdelta = [t \in Threads |-> NoDelta]
    /\ ncalls = [t \in Threads |-> 0]
    /\ nMeasure = [i \in Instances |-> 0]
    /\ nStore = [i \in Instances |-> 0]
    /\ measureFailed = [i \in Instances |-> FALSE]
    /\ stamps = [i \in Instances |-> {}]
    /\ nSent = [i \in Instances |-> 0]

(***************************************************************************)
(* One Api instance in full detail: what _call puts in a request.          *)
(***************************************************************************)

\* ENDPOINTS.get(CONF.ovhapi.endpoint), CONF.ovhapi.application_key and
\* CONF.ovhapi.application_secret, as BaseClient.__init__ passes them
endpoint_url == "https://eu.api.ovh.com/1.0"
application_key == "AK"
application_secret == "AS"

\* CONF.ovhapi.consumer_key: configured empty, configured, or left unset
\* (the option has no default, so an unset key is None)
ConsumerKeys == {"", "CK", None}

\* the wrappers get, put, post, delete: the method and content they pass
Wrappers == {[method |-> "get", content |-> None],
             [method |-> "delete", content |-> None],
             [method |-> "put", content |-> "bootId"],
             [method |-> "post", content |-> None],
             [method |-> "post", content |-> "bootId"]}
Paths == {"/dedicated/server", "/me/ipxeScript/boot.ipxe"}

\* str.upper and str.lower on the method names
upper(m) ==
    CASE m = "get" -> "GET" [] m = "put" -> "PUT"
      [] m = "post" -> "POST" [] m = "delete" -> "DELETE" [] OTHER -> m
lower(m) ==
    CASE m = "GET" -> "get" [] m = "PUT" -> "put"
      [] m = "POST" -> "post" [] m = "DELETE" -> "delete" [] OTHER -> m
\* getattr(self.session, method.lower()): the verb that session method sends
SessionVerb(m) ==
    CASE m = "get" -> "GET" [] m = "put" -> "PUT"
      [] m = "post" -> "POST" [] m = "delete" -> "DELETE"

\* str(n), json.dumps(content) and the empty body ""
str(n) == <<"str", n>>
EmptyBody == <<>>
json_dumps(content) == <<"json", content>>
Body(content) == IF content # None THEN json_dumps(content) ELSE EmptyBody

\* header names, as their words between the dashes
H_ContentType == <<"Content", "type">>
H_Application == <<"X", "Ovh", "Application">>
H_Timestamp == <<"X", "Ovh", "Timestamp">>
H_Consumer == <<"X", "Ovh", "Consumer">>
H_Signature == <<"X", "Ovh", "Signature">>

\* ovh_base.py:83, the integer that becomes the timestamp
Timestamp_Minus(t0, d) == t0 - d
Timestamp(t0, d) == t0 + d

\* ovh_base.py:78, the delta from the two readings
Delta(remote, local) == remote - local

\* ovh_base.py:107-114: the sequence joined with "+" and hashed
SignatureBase_NoBody(secret, ck, method, url, body, now) ==
    <<secret, ck, upper(method), url, EmptyBody, now>>
SignatureBase(secret, ck, method, url, body, now) ==
    <<secret, ck, upper(method), url, body, now>>
\* "$1$" + sha1(...).hexdigest(); the digest stands for what was hashed
Signature(base) == <<"$1$", "sha1", base>>

\* ovh_base.py:104, whether the request is signed
Signs_Always(ck) == TRUE
Signs(ck) == ck # ""

\* ovh_base.py:98-116: the headers of the request
Headers(ck, method, url, body, now) ==
    LET plain == (H_ContentType :> <<"application/json">>)
                 @@ (H_Application :> <<application_key>>)
                 @@ (H_Timestamp :> now)
    IN IF Signs(ck)
       THEN plain @@ (H_Consumer :> <<ck>>)
                  @@ (H_Signature :>
                        Signature(SignatureBase(application_secret, ck,
                                                method, url, body, now)))
       ELSE plain

\* the clock of the remote API is ahead of or behind this computer's
Skews == {100, 0 - 2}
ClockStart == 1700000000
TickSteps == {1, 50}
MaxTicks == 2

NoArgs == [method |-> None, path |-> None, content |-> None]
NoReq == [sent |-> FALSE]
NoLog == [emitted |-> FALSE]

SignIdle ==
    /\ clock = ClockStart
    /\ nticks = 0
    /\ consumer_key = "CK"
    /\ debug = FALSE
    /\ py = "py3"
    /\ s_delta = NoDelta
    /\ s_pc = "idle"
    /\ s_args = NoArgs
    /\ s_t0 = 0
    /\ mRemote = 0
    /\ mLocal = 0
    /\ s_sent = NoReq
    /\ s_log = NoLog
    /\ s_raised = None

(***************************************************************************)
(* The boot targets BaseClient resolves.                                   *)
(***************************************************************************)

\* the script targets a listing can hold: B2 is a second target of the boot
\* script, N1 a target whose detail record has no kernel field
AllBootIds == BootIds \cup {"B2", "N1"}
detail == [b \in AllBootIds |->
             CASE b = "B2" -> [bootId |-> b, kernel |-> boot_script]
               [] b = "N1" -> [bootId |-> b]
               [] OTHER -> [bootId |-> b, kernel |-> kernel[b]]]
ScanListings == { <<"O1", "B1">>, <<"B1", "B2">>, <<"N1", "P1", "O1">>, <<>> }
ScanBroken == { {}, {"O1"}, {"B1"} }
DiskListings == { <<>>, <<"D1">>, <<"D2", "D1">> }
Scripts == {boot_script, poweroff_script}
MaxRemoteChanges == 1

\* dict.get(field, default)
Get(rec, field, default) ==
    IF field \in DOMAIN rec THEN rec[field] ELSE default

\* client.py:209: the comparison of the kernel field with script_name
Matches_Any(k, script_name) == TRUE
Matches(k, script_name) == k = script_name

\* client.py:199-205: what the scan does when a detail GET raises
OnDetailError_Raise(kind) == "raise"
OnDetailError(kind) == IF kind = "http_error" THEN "continue" ELSE "raise"

\* client.py:190: the iteration starts at the head of the listing
ScanStart_Resume == r_i + 1
ScanStart == 1

\* client.py:244-248: the boot id get_disk_boot_id returns from a listing
FirstOf_Last(result) == result[Len(result)]
FirstOf(result) == result[1]

NoRequest == [kind |-> None, id |-> None, outcome |-> None]

ScanIdle ==
    /\ r_list = <<"O1", "B1">>
    /\ r_broken = {}
    /\ r_disks = <<"D1">>
    /\ r_changes = 0
    /\ r_pc = "idle"
    /\ r_fn = None
    /\ r_script = None
    /\ result_ = <<>>
    /\ r_i = 1
    /\ r_reqs = <<>>
    /\ r_last = NoRequest
    /\ r_skipped = {}
    /\ r_ret = None
    /\ r_prev = [s \in Scripts |-> None]
    /\ r_clean = TRUE

ValidateIdle ==
    /\ v_servers = <<"ns1">>
    /\ v_pc = "idle"
    /\ v_iface = None
    /\ v_name = None
    /\ v_reqs = <<>>
    /\ v_listed = FALSE
    /\ v_ret = None

\* the provisioning tool has uploaded both scripts, or one, or none
AccountScripts == SUBSET {boot_script, poweroff_script}
AccountIdle == meScripts = {boot_script, poweroff_script}

\* boot_devices.DISK, boot_devices.PXE, boot_devices.CDROM
DISK == "disk"
PXE == "pxe"
CDROM == "cdrom"

NoRet == <<>>
GatewayIdle ==
    /\ g_pc = "idle"
    /\ g_op = None
    /\ g_reqs = <<>>
    /\ g_err = None
    /\ g_logged = FALSE
    /\ g_raised = None
    /\ g_ret = NoRet
    /\ g_hist = <<>>

NoMRet == [kind |-> None, boot_device |-> None, persistent |-> FALSE]
NoSet == [device |-> None, target |-> None]
MgmtIdle ==
    /\ m_pc = "idle"
    /\ m_fn = None
    /\ m_device = None
    /\ m_target = None
    /\ m_reqs = <<>>
    /\ m_ret = NoMRet
    /\ m_disks = <<"D1">>
    /\ m_diskIds = <<>>
    /\ m_prevBoot = None
    /\ m_lastSet = NoSet
    /\ m_changes = 0

ExtIdle == SignIdle /\ ScanIdle /\ ValidateIdle /\ GatewayIdle /\ MgmtIdle

Init == PowerInit /\ ClientIdle /\ ExtIdle /\ AccountIdle

\* the transport alone: the node and the remote server are left as they are
ClientInit ==
    /\ PowerInit
    /\ node_power_state = None
    /\ bootId = "D1"
    /\ bootList = <<"O1", "B1", "P1">>
    /\ broken = {}
    /\ ClientIdle
    /\ ExtIdle
    /\ meScripts \in AccountScripts

(***************************************************************************)
(* OvhApiPower.set_power_state                                             *)
(***************************************************************************)

\* power.py:56-68: the call starts; an unsupported state raises at once
Enter(ps, to) ==
    /\ pc = "idle"
    /\ CanAcquire(lock)
    /\ lock' = "power"
    /\ power_state' = ps
    /\ timeout' = to
    /\ calls' = <<>>
    /\ prevBootId' = bootId
    /\ prevPowerState' = node_power_state
    /\ pc' = IF ~Supported(ps, get_supported_power_states)
             THEN "raised" ELSE StepAfter("enter")
    /\ UNCHANGED <<task_id, status, node_power_state, bootId, bootList,
                   broken, remoteTask, slept, gps_ret, clientVars, extVars>>

\* power.py:72-74 and 78-80: set_boot_script(server_name, script) resolves the
\* script to a boot id and sets it; any failure raises out of the call
SetBootScript(outcome) ==
    /\ pc = "set_boot"
    /\ LET id == set_boot_script(ScriptFor(power_state)) IN
       CASE outcome = "list_error" ->
              /\ calls' = Record(Req("list_boot", None, FALSE, None))
              /\ pc' = "raised"
              /\ UNCHANGED bootId
         [] outcome = "put_error" /\ id # NotFound ->
              /\ calls' = Append(Record(Req("list_boot", None, TRUE, None)),
                                 Req("set_boot_id", id, FALSE, None))
              /\ pc' = "raised"
              /\ UNCHANGED bootId
         [] OTHER ->
              IF id = NotFound
              THEN /\ calls' = Record(Req("list_boot", None, TRUE, None))
                   /\ pc' = "raised"
                   /\ UNCHANGED bootId
              ELSE /\ calls' = Append(Record(Req("list_boot", None, TRUE, None)),
                                      Req("set_boot_id", id, TRUE, None))
                   /\ bootId' = id
                   /\ pc' = StepAfter("set_boot")
    /\ UNCHANGED <<power_state, timeout, task_id, status, node_power_state,
                   bootList, broken, remoteTask, prevBootId, prevPowerState,
                   slept, lock, gps_ret, clientVars, extVars>>

\* power.py:75-76, 81-82, 87-91: reboot_server; on success the node is marked
\* REBOOT and the task id is read from the response
RebootServer(outcome, tid) ==
    /\ pc = "reboot"
    /\ IF outcome = "ok"
       THEN /\ remoteTask' = reboot_server(tid)
            /\ calls' = Record(Req("reboot", None, TRUE, tid))
            /\ task_id' = tid
            /\ pc' = StepAfter("reboot")
       ELSE /\ calls' = Record(Req("reboot", None, FALSE, None))
            /\ pc' = "raised"
            /\ UNCHANGED <<remoteTask, task_id>>
    /\ node_power_state' = MarkReboot(outcome, node_power_state)
    /\ UNCHANGED <<power_state, timeout, status, bootId, bootList, broken,
                   prevBootId, prevPowerState, slept, lock, gps_ret,
                   clientVars, extVars>>

\* power.py:94-95: an iteration of the poll loop starts with time.sleep(3)
Sleep ==
    /\ pc = "sleep"
    /\ pc' = "get_task"
    /\ slept' = slept + poll_interval
    /\ UNCHANGED <<power_state, timeout, task_id, status, node_power_state,
                   bootId, bootList, broken, remoteTask, calls, prevBootId,
                   prevPowerState, lock, gps_ret, clientVars, extVars>>

\* power.py:97-113: get_task, then the classification of the fetched status
GetTask(outcome) ==
    /\ pc = "get_task"
    /\ IF outcome = "ok" /\ remoteTask # NoTask
       THEN LET content == get_task(task_id)
                cls == Classify(content.status) IN
            /\ calls' = Record(Req("get_task", task_id, TRUE, content.status))
            /\ task_id' = NextTaskId(content)
            /\ status' = content.status
            /\ node_power_state' = FinalState(cls, power_state, node_power_state)
            /\ pc' = IF Break(cls, timeout) THEN "returned" ELSE "sleep"
       ELSE /\ calls' = Record(Req("get_task", task_id, FALSE, None))
            /\ pc' = "raised"
            /\ UNCHANGED <<task_id, status, node_power_state>>
    /\ slept' = 0
    /\ UNCHANGED <<power_state, timeout, bootId, bootList, broken, remoteTask,
                   prevBootId, prevPowerState, lock, gps_ret,
                   clientVars, extVars>>

\* the call has returned or raised: its locals are gone, the lock is released
Finish ==
    /\ pc \in {"returned", "raised"}
    /\ pc' = "idle"
    /\ power_state' = None
    /\ timeout' = None
    /\ task_id' = None
    /\ status' = None
    /\ calls' = <<>>
    /\ prevBootId' = None
    /\ prevPowerState' = None
    /\ slept' = 0
    /\ lock' = None
    /\ UNCHANGED <<node_power_state, bootId, bootList, broken, remoteTask,
                   gps_ret, clientVars, extVars>>

\* the remote side works on the reboot task
RemoteTaskAdvance(s) ==
    /\ remoteTask # NoTask
    /\ remoteTask.status \in InProgress
    /\ Rank(s) > Rank(remoteTask.status)
    /\ remoteTask' = [remoteTask EXCEPT !.status = s]
    /\ UNCHANGED <<pc, power_state, timeout, task_id, status, node_power_state,
                   bootId, bootList, broken, calls, prevBootId, prevPowerState,
                   slept, lock, gps_ret, clientVars, extVars>>

\* power.py:45-52: get_power_state(task), which needs no exclusive lock
GetPowerState ==
    /\ gps_ret' = get_power_state
    /\ UNCHANGED <<pc, power_state, timeout, task_id, status, node_power_state,
                   bootId, bootList, broken, remoteTask, calls, prevBootId,
                   prevPowerState, slept, lock, clientVars, extVars>>

Outcomes == {"ok", "http_error"}

Next ==
    \/ \E ps \in {POWER_ON, POWER_OFF, REBOOT, SOFT_REBOOT}, to \in {None, "1s"} :
          Enter(ps, to)
    \/ \E o \in {"ok", "list_error", "put_error"} : SetBootScript(o)
    \/ \E o \in Outcomes, tid \in TaskIds : RebootServer(o, tid)
    \/ Sleep
    \/ \E o \in Outcomes : GetTask(o)
    \/ Finish
    \/ \E s \in Statuses : RemoteTaskAdvance(s)
    \/ GetPowerState

Spec == Init /\ [][Next]_vars

(***************************************************************************)
(* Api._call and Api.time_delta, and the construction of BaseClient        *)
(***************************************************************************)

\* the end of a call: the constructor's call decides whether the instance
\* exists; a worker's call returns or raises to its caller
EndCall(t, ok) ==
    /\ tpc' = [tpc EXCEPT ![t] = "idle"]
    /\ tinst' = [tinst EXCEPT ![t] = None]
    /\ tmeasured' = [tmeasured EXCEPT ![t] = NoDelta]
    /\ tdelta' = [tdelta EXCEPT ![t] = NoDelta]
    /\ built' = IF t = "loader"
                THEN [built EXCEPT ![tinst[t]] = CtorOutcome(ok)]
                ELSE built

\* client.py:28-37: Api.__init__ sets _time_delta to None, then the check
\* of the boot script makes the first call of the instance
Construct(i) ==
    /\ tpc["loader"] = "idle"
    /\ built[i] = "new"
    /\ time_delta_' = [time_delta_ EXCEPT ![i] = NoDelta]
    /\ IF CtorChecks
       THEN /\ built' = [built EXCEPT ![i] = "constructing"]
            /\ tpc' = [tpc EXCEPT !["loader"] = "time_delta"]
            /\ tinst' = [tinst EXCEPT !["loader"] = i]
       ELSE /\ built' = [built EXCEPT ![i] = "ready"]
            /\ UNCHANGED <<tpc, tinst>>
    /\ UNCHANGED <<tmeasured, tdelta, ncalls, nMeasure, nStore, measureFailed,
                   stamps, nSent, powerVars, extVars>>

\* ovh_base.py:81-83: a thread enters _call on a constructed instance
CallStart(t, i) ==
    /\ t \in Workers
    /\ tpc[t] = "idle"
    /\ built[i] = "ready"
    /\ ncalls[t] < MaxCallsPerThread
    /\ tpc' = [tpc EXCEPT ![t] = "time_delta"]
    /\ tinst' = [tinst EXCEPT ![t] = i]
    /\ ncalls' = [ncalls EXCEPT ![t] = @ + 1]
    /\ UNCHANGED <<time_delta_, built, tmeasured, tdelta, nMeasure, nStore,
                   measureFailed, stamps, nSent, powerVars, extVars>>

\* ovh_base.py:75: the test of the cached value
TdCheck(t) ==
    /\ tpc[t] = "time_delta"
    /\ tpc' = [tpc EXCEPT ![t] =
                 IF NeedsMeasure(time_delta_[tinst[t]]) THEN "query" ELSE "return"]
    /\ UNCHANGED <<time_delta_, built, tinst, tmeasured, tdelta, ncalls,
                   nMeasure, nStore, measureFailed, stamps, nSent, powerVars, extVars>>

\* ovh_base.py:76-78: the GET of /auth/time, raise_for_status and the
\* subtraction; a failure raises out of _call
TdQuery(t, outcome, d) ==
    /\ tpc[t] = "query"
    /\ nMeasure' = [nMeasure EXCEPT ![tinst[t]] = @ + 1]
    /\ IF outcome = "ok"
       THEN /\ tmeasured' = [tmeasured EXCEPT ![t] = <<d>>]
            /\ tpc' = [tpc EXCEPT ![t] = "store"]
            /\ UNCHANGED <<measureFailed, tinst, tdelta, built>>
       ELSE /\ measureFailed' = [measureFailed EXCEPT ![tinst[t]] = TRUE]
            /\ EndCall(t, FALSE)
    /\ UNCHANGED <<time_delta_, ncalls, nStore, stamps, nSent, powerVars, extVars>>

\* ovh_base.py:78: the assignment to self._time_delta
TdStore(t) ==
    /\ tpc[t] = "store"
    /\ time_delta_' = [time_delta_ EXCEPT ![tinst[t]] = tmeasured[t]]
    /\ nStore' = [nStore EXCEPT ![tinst[t]] = @ + 1]
    /\ tpc' = [tpc EXCEPT ![t] = "return"]
    /\ UNCHANGED <<built, tinst, tmeasured, tdelta, ncalls, nMeasure,
                   measureFailed, stamps, nSent, powerVars, extVars>>

\* ovh_base.py:79: return self._time_delta
TdReturn(t) ==
    /\ tpc[t] = "return"
    /\ tdelta' = [tdelta EXCEPT ![t] = time_delta_[tinst[t]]]
    /\ tpc' = [tpc EXCEPT ![t] = "send"]
    /\ UNCHANGED <<time_delta_, built, tinst, tmeasured, ncalls, nMeasure,
                   nStore, measureFailed, stamps, nSent, powerVars, extVars>>

\* client.py:37: the script whose existence the constructor checks
CtorScripts_Both == {boot_script, poweroff_script}
CtorScripts == {boot_script}

\* client.py:72: GET /me/ipxeScript/{name} answers 404 for a missing script
ScriptAnswer(names) == IF names \subseteq meScripts THEN "ok" ELSE "http_error"

\* ovh_base.py:83-129: the timestamp is local time plus the returned delta;
\* the request is sent, and an HTTP error status raises
Send(t, outcome) ==
    /\ tpc[t] = "send"
    /\ (t = "loader" /\ outcome = "ok") => ScriptAnswer(CtorScripts) = "ok"
    /\ stamps' = [stamps EXCEPT ![tinst[t]] = @ \cup {tdelta[t]}]
    /\ nSent' = [nSent EXCEPT ![tinst[t]] = @ + 1]
    /\ EndCall(t, outcome = "ok")
    /\ UNCHANGED <<time_delta_, ncalls, nMeasure, nStore, measureFailed,
                   powerVars, extVars>>

ClientNext ==
    \/ \E i \in Instances : Construct(i)
    \/ \E t \in Workers, i \in Instances : CallStart(t, i)
    \/ \E t \in Threads : TdCheck(t)
    \/ \E t \in Threads, o \in Outcomes, d \in Deltas : TdQuery(t, o, d)
    \/ \E t \in Threads : TdStore(t)
    \/ \E t \in Threads : TdReturn(t)
    \/ \E t \in Threads, o \in Outcomes : Send(t, o)

ClientSpec == ClientInit /\ [][ClientNext]_vars

\* the thread running set_power_state keeps running, and the remote side
\* keeps working on the task until it reaches a terminal status
LiveSpec ==
    /\ Init
    /\ [][Next]_vars
    /\ WF_vars(\E o \in {"ok", "list_error", "put_error"} : SetBootScript(o))
    /\ WF_vars(\E o \in Outcomes, tid \in TaskIds : RebootServer(o, tid))
    /\ WF_vars(Sleep)
    /\ WF_vars(\E o \in Outcomes : GetTask(o))
    /\ WF_vars(\E s \in Statuses : RemoteTaskAdvance(s))

(***************************************************************************)
(* Properties of set_power_state                                           *)
(***************************************************************************)
Idx == DOMAIN calls
Mutations == {i \in Idx : calls[i].op = "set_boot_id"}
FirstMutation ==
    IF Mutations = {} THEN 0
    ELSE CHOOSE i \in Mutations : \A j \in Mutations : i <= j
\* requests that set the boot target back to what it was when the call began
Restorations ==
    {i \in Mutations : i > FirstMutation /\ calls[i].arg = prevBootId}
\* the boot id the remote listing gives for the script of a requested state
TargetOf(ps) ==
    get_ipxe_script_id(bootList, broken,
                       IF ps = POWER_OFF THEN "poweroff.ipxe" ELSE "boot.ipxe")
Terminated == pc \in {"returned", "raised"}
Polling == pc \in {"sleep", "get_task"}

\* C1: a power-off call that returns has restored the boot target it found
\* at its start, by exactly one restoring request, whether the poll loop
\* ended on a success-terminal or on an error-terminal status.
C1_PowerOffRestoresOnce ==
    (pc = "returned" /\ power_state = POWER_OFF)
        => (Cardinality(Restorations) = 1 /\ bootId = prevBootId)

\* C2: a power-off call that raises while setting the boot target, rebooting
\* or polling has attempted to restore the previous boot target before the
\* exception reaches the caller.
C2_RestoreAttemptedBeforeRaise ==
    (pc = "raised" /\ power_state = POWER_OFF) => Restorations # {}

\* C3: a fetched status ovhError or customerError sets the reported power
\* state to ERROR and ends the loop: the fetch that returned it is the last
\* request of the call, and the reported state stays ERROR.
C3_ErrorStatusStopsPolling ==
    /\ status \in {"ovhError", "customerError"}
          => (pc = "returned" /\ node_power_state = ERROR)
    /\ \A i \in Idx :
          (calls[i].op = "get_task" /\ calls[i].res \in {"ovhError", "customerError"})
              => i = Len(calls)
C3_Witness ==
    /\ pc = "returned"
    /\ power_state = POWER_OFF
    /\ status = "customerError"
    /\ node_power_state = ERROR
    /\ \E i \in Idx : calls[i].op = "get_task" /\ calls[i].res = "doing"

\* C4: a fetched status that is neither init, todo, doing nor ovhError,
\* customerError sets the reported power state to the requested state and
\* ends the loop: the fetch that returned it is the last request of the call.
C4_OtherStatusSetsRequested ==
    /\ status \in Statuses \ {"init", "todo", "doing", "ovhError", "customerError"}
          => (pc = "returned" /\ node_power_state = power_state)
    /\ \A i \in Idx :
          (/\ calls[i].op = "get_task"
           /\ calls[i].res \in Statuses \ {"init", "todo", "doing",
                                            "ovhError", "customerError"})
              => i = Len(calls)
C4_Witness ==
    /\ pc = "returned"
    /\ status = "cancelled"
    /\ power_state = REBOOT
    /\ node_power_state = REBOOT
    /\ \E i \in Idx : calls[i].op = "get_task" /\ calls[i].res = "todo"

\* C5: the boot target is set, successfully, before the reboot request is
\* issued, and the reboot request has succeeded before the first status
\* fetch; a call whose boot-target step failed issues no reboot request.
C5_SetThenRebootThenPoll ==
    /\ \A i \in Idx : calls[i].op = "reboot"
          => \E j \in 1..(i - 1) : calls[j].op = "set_boot_id" /\ calls[j].ok
    /\ \A i \in Idx : calls[i].op = "get_task"
          => \E j \in 1..(i - 1) : calls[j].op = "reboot" /\ calls[j].ok
    /\ \A i \in Idx : (calls[i].op \in {"list_boot", "set_boot_id"} /\ ~calls[i].ok)
          => \A j \in Idx : calls[j].op # "reboot"
C5_Witness ==
    /\ Polling
    /\ Len(calls) >= 4
    /\ calls[2].op = "set_boot_id"
    /\ calls[3].op = "reboot"
    /\ calls[4].op = "get_task"
C5_WitnessFailedSet ==
    pc = "raised" /\ \E i \in Idx : calls[i].op = "set_boot_id" /\ ~calls[i].ok

\* C6: every reboot request follows a boot-target request for the target of
\* the requested state (the boot script for power-on and reboot, the
\* power-off script for power-off); a power-on or reboot call restores
\* nothing, and leaves the server on the boot-script target when it returns.
C6_TargetIsScriptOfState ==
    /\ \A i \in Idx : calls[i].op = "reboot"
          => /\ i > 1
             /\ calls[i - 1].op = "set_boot_id"
             /\ calls[i - 1].arg = TargetOf(power_state)
    /\ (power_state \in {POWER_ON, REBOOT} /\ Terminated)
          => Restorations = {}
    /\ (power_state \in {POWER_ON, REBOOT} /\ pc = "returned")
          => (bootId = TargetOf(POWER_ON) /\ kernel[bootId] = "boot.ipxe")
C6_Witness ==
    /\ pc = "returned"
    /\ power_state = POWER_ON
    /\ prevBootId = "P1"
    /\ bootId = "B1"
C6_WitnessOff ==
    /\ Polling
    /\ power_state = POWER_OFF
    /\ prevBootId = "D1"
    /\ bootId = "P1"

\* C7: if the remote task eventually reports a status outside init, todo,
\* doing, a started call eventually returns or raises; and the poll loop is
\* left only on such a status or on an exception, whatever the timeout
\* argument is.
C7_TerminatesOnlyOnTerminalStatus ==
    /\ (pc \in {"set_boot", "reboot", "sleep", "get_task"}) ~> Terminated
    /\ [][(Polling /\ ~Polling')
            => (pc' = "raised" \/ (pc' = "returned" /\ status' \notin InProgress))]_vars
    /\ [](status \in InProgress => (Polling \/ pc = "raised"))
C7_Witness ==
    /\ pc = "sleep"
    /\ timeout # None
    /\ status = "doing"
    /\ \E i \in Idx : calls[i].op = "get_task" /\ calls[i].res = "init"

(***************************************************************************)
(* Properties of the clock delta                                           *)
(***************************************************************************)
InCall(t, i) == tpc[t] # "idle" /\ tinst[t] = i

C10_OneDeltaPerInstance ==
    \A i \in Instances :
        /\ nStore[i] <= 1
        /\ stamps[i] \subseteq {time_delta_[i]}
        /\ \A t \in Threads :
              (InCall(t, i) /\ tpc[t] = "send") => tdelta[t] = time_delta_[i]
C10_Witness ==
    /\ InCall("w1", "power")
    /\ InCall("w2", "power")
    /\ ncalls["w1"] = 1
    /\ ncalls["w2"] = 1
    /\ tpc["w1"] = "send"
    /\ tpc["w2"] = "time_delta"

(***************************************************************************)
(* Api._call, Api.time_delta and Api._log_request, one call at a time      *)
(***************************************************************************)

\* str.lower on the words of the header names (re.IGNORECASE)
LowerWord(w) ==
    CASE w = "X" -> "x" [] w = "Ovh" -> "ovh" [] w = "Content" -> "content"
      [] w = "Application" -> "application" [] w = "Timestamp" -> "timestamp"
      [] w = "Consumer" -> "consumer" [] w = "Signature" -> "signature"
      [] OTHER -> w

\* ovh_base.py:25-28: the alternatives of the pattern, lower-cased
OBFUSCATE_REGEX_NoSignature ==
    {<<"x", "ovh", "application">>, <<"password">>, <<"x", "ovh", "consumer">>}
OBFUSCATE_REGEX ==
    {<<"x", "ovh", "application">>, <<"password">>, <<"signature">>,
     <<"x", "ovh", "consumer">>}

\* OBFUSCATE_REGEX.search(k): some alternative occurs somewhere in the name
Search(k) ==
    \E a \in OBFUSCATE_REGEX :
        \E off \in 0..(Len(k) - Len(a)) :
            \A j \in 1..Len(a) : LowerWord(k[off + j]) = a[j]

OBFUSCATED == <<"OBFUSCATED">>

\* ovh_base.py:142-156: the debug lines of one request
LogLines(method, target_url, headers, data) ==
    [emitted |-> TRUE, method |-> method, url |-> target_url,
     headers |-> [k \in DOMAIN headers |->
                     IF Search(k) THEN OBFUSCATED ELSE headers[k]],
     bodyLogged |-> data # EmptyBody, body |-> data]

\* a configuration and an interpreter are chosen before the instance exists
SignInit ==
    /\ PowerInit
    /\ node_power_state = None
    /\ bootId = "D1"
    /\ bootList = <<"O1", "B1", "P1">>
    /\ broken = {}
    /\ ClientIdle
    /\ GatewayIdle
    /\ MgmtIdle
    /\ clock = ClockStart
    /\ nticks = 0
    /\ consumer_key \in ConsumerKeys
    /\ debug \in BOOLEAN
    /\ py \in {"py2", "py3"}
    /\ s_delta = NoDelta
    /\ s_pc = "idle"
    /\ s_args = NoArgs
    /\ s_t0 = 0
    /\ mRemote = 0
    /\ mLocal = 0
    /\ s_sent = NoReq
    /\ s_log = NoLog
    /\ s_raised = None
    /\ ScanIdle
    /\ ValidateIdle
    /\ AccountIdle

\* time passes on this computer
Tick(n) ==
    /\ nticks < MaxTicks
    /\ clock' = clock + n
    /\ nticks' = nticks + 1
    /\ UNCHANGED <<consumer_key, debug, py, s_delta, s_pc, s_args, s_t0,
                   mRemote, mLocal, s_sent, s_log, s_raised,
                   powerVars, clientVars, scanVars, validateVars, accountVars, gatewayVars, mgmtVars>>

\* ovh_base.py:82-83: _call starts and reads the local time
SCall(w, p) ==
    /\ s_pc = "idle"
    /\ s_args' = [method |-> w.method, path |-> p, content |-> w.content]
    /\ s_t0' = clock
    /\ s_pc' = "time_delta"
    /\ s_sent' = NoReq
    /\ s_log' = NoLog
    /\ s_raised' = None
    /\ UNCHANGED <<clock, nticks, consumer_key, debug, py, s_delta,
                   mRemote, mLocal, powerVars, clientVars, scanVars, validateVars, accountVars, gatewayVars, mgmtVars>>

\* ovh_base.py:75-77 and 79: a cached delta is returned, else /auth/time is
\* asked and answers with the remote time or with an error
STimeDelta(outcome, skew) ==
    /\ s_pc = "time_delta"
    /\ IF ~NeedsMeasure(s_delta)
       THEN /\ outcome = "ok"
            /\ skew = 100
            /\ s_pc' = "build"
            /\ UNCHANGED <<mRemote, s_raised, s_args>>
       ELSE IF outcome = "ok"
            THEN /\ mRemote' = clock + skew
                 /\ s_pc' = "subtract"
                 /\ UNCHANGED <<s_raised, s_args>>
            ELSE /\ skew = 100
                 /\ s_pc' = "idle"
                 /\ s_raised' = "HTTPError"
                 /\ s_args' = NoArgs
                 /\ UNCHANGED mRemote
    /\ UNCHANGED <<clock, nticks, consumer_key, debug, py, s_delta, s_t0,
                   mLocal, s_sent, s_log, powerVars, clientVars, scanVars, validateVars, accountVars, gatewayVars, mgmtVars>>

\* ovh_base.py:78: the local time is read and the delta is stored
SSubtract ==
    /\ s_pc = "subtract"
    /\ mLocal' = clock
    /\ s_delta' = <<Delta(mRemote, clock)>>
    /\ s_pc' = "build"
    /\ UNCHANGED <<clock, nticks, consumer_key, debug, py, s_args, s_t0,
                   mRemote, s_sent, s_log, s_raised, powerVars, clientVars,
                   scanVars, validateVars, accountVars, gatewayVars, mgmtVars>>

\* ovh_base.py:83-129 and 131-156: the request is built, logged and sent
SSend(outcome) ==
    /\ s_pc = "build"
    /\ LET target_url == <<endpoint_url, s_args.path>>
           now == str(Timestamp(s_t0, s_delta[1]))
           body == Body(s_args.content)
           headers == Headers(consumer_key, s_args.method, target_url,
                              body, now)
       IN IF Signs(consumer_key) /\ consumer_key = None
          THEN \* "+".join of a list holding None
               /\ outcome = "ok"
               /\ s_raised' = "TypeError"
               /\ UNCHANGED <<s_sent, s_log>>
          ELSE IF debug /\ py = "py3"
          THEN \* a dict has no iteritems
               /\ outcome = "ok"
               /\ s_raised' = "AttributeError"
               /\ UNCHANGED <<s_sent, s_log>>
          ELSE /\ s_log' = IF debug
                           THEN LogLines(upper(s_args.method), target_url,
                                         headers, body)
                           ELSE NoLog
               /\ s_sent' = [sent |-> TRUE,
                             method |-> SessionVerb(lower(s_args.method)),
                             url |-> target_url, headers |-> headers,
                             data |-> body, t0 |-> s_t0]
               /\ s_raised' = IF outcome = "ok" THEN None ELSE "HTTPError"
    /\ s_pc' = "idle"
    /\ s_args' = NoArgs
    /\ UNCHANGED <<clock, nticks, consumer_key, debug, py, s_delta, s_t0,
                   mRemote, mLocal, powerVars, clientVars, scanVars, validateVars, accountVars, gatewayVars, mgmtVars>>

SignNext ==
    \/ \E n \in TickSteps : Tick(n)
    \/ \E w \in Wrappers, p \in Paths : SCall(w, p)
    \/ \E outcome \in Outcomes, skew \in Skews : STimeDelta(outcome, skew)
    \/ SSubtract
    \/ \E outcome \in Outcomes : SSend(outcome)

SignSpec == SignInit /\ [][SignNext]_vars

(***************************************************************************)
(* Properties of the requests _call sends                                  *)
(***************************************************************************)

\* C11: the timestamp of every request sent is the local time read when the
\* call started plus the cached delta, and the cached delta is the remote
\* time answered by /auth/time minus the local time read at the measurement.
C11_TimestampIsLocalPlusDelta ==
    s_sent.sent =>
        /\ s_delta = <<mRemote - mLocal>>
        /\ s_sent.headers[H_Timestamp] =
               <<"str", s_sent.t0 + (mRemote - mLocal)>>

\* remote 1700000100 against local 1700000000 gives 100; a call made at
\* local 1700000050 is stamped 1700000150
C11_Witness ==
    /\ s_sent.sent
    /\ mRemote = ClockStart + 100
    /\ mLocal = ClockStart
    /\ s_delta = <<100>>
    /\ s_sent.t0 = ClockStart + 50
    /\ s_sent.headers[H_Timestamp] = <<"str", ClockStart + 150>>

\* C12: a request made with a non-empty consumer key carries a signature
\* computed over exactly the application secret, the consumer key, the
\* upper-cased method, the full URL, the serialized body and the timestamp of
\* that same request: the method, URL and body that are sent and the
\* timestamp header that is sent are the ones that were signed.
C12_SignatureCoversTheRequest ==
    (s_sent.sent /\ consumer_key # "") =>
        /\ H_Signature \in DOMAIN s_sent.headers
        /\ s_sent.headers[H_Signature] =
               <<"$1$", "sha1",
                 <<application_secret, consumer_key, s_sent.method,
                   s_sent.url, s_sent.data, s_sent.headers[H_Timestamp]>>>>

C12_Witness ==
    /\ s_sent.sent
    /\ consumer_key = "CK"
    /\ s_sent.method = "PUT"
    /\ s_sent.data = <<"json", "bootId">>
    /\ H_Signature \in DOMAIN s_sent.headers

\* C13: a request made with an empty consumer key carries neither the
\* signature header nor the consumer-key header; a request made with a
\* non-empty consumer key carries both.
C13_SignedIffConsumerKey ==
    s_sent.sent =>
        IF consumer_key = ""
        THEN DOMAIN s_sent.headers = {H_ContentType, H_Application, H_Timestamp}
        ELSE /\ DOMAIN s_sent.headers = {H_ContentType, H_Application,
                                         H_Timestamp, H_Consumer, H_Signature}
             /\ s_sent.headers[H_Consumer] = <<consumer_key>>

C13_Witness ==
    /\ s_sent.sent
    /\ consumer_key = ""
    /\ H_Signature \notin DOMAIN s_sent.headers
    /\ H_Consumer \notin DOMAIN s_sent.headers

\* the credential pattern as the claim words it: application, password,
\* signature, consumer, whatever the case
CredentialWords == {"application", "password", "signature", "consumer"}
MatchesCredentialPattern(k) ==
    \E j \in 1..Len(k) : LowerWord(k[j]) \in CredentialWords

\* C14: in every debug line emitted for a request, each header whose name
\* matches the credential pattern shows the redaction marker, and the value
\* that header has in the request appears nowhere among the logged headers.
C14_CredentialHeadersAreRedacted ==
    s_log.emitted =>
        \A k \in DOMAIN s_sent.headers :
            MatchesCredentialPattern(k) =>
                /\ s_log.headers[k] = OBFUSCATED
                /\ \A k2 \in DOMAIN s_log.headers :
                       s_log.headers[k2] # s_sent.headers[k]

C14_Witness ==
    /\ s_log.emitted
    /\ debug
    /\ H_Signature \in DOMAIN s_log.headers
    /\ s_log.headers[H_Signature] = OBFUSCATED
    /\ s_log.headers[H_Consumer] = OBFUSCATED
    /\ s_log.headers[H_Application] = OBFUSCATED
    /\ s_log.headers[H_Timestamp] = s_sent.headers[H_Timestamp]

(***************************************************************************)
(* BaseClient.get_ipxe_script_id and BaseClient.get_disk_boot_id           *)
(***************************************************************************)

\* a GET answers, answers with an HTTP error status, or raises something
\* else (connection error, timeout, a body that is not JSON)
GetOutcomes == {"ok", "http_error", "other_error"}
Raised(outcome) == IF outcome = "http_error" THEN "HTTPError" ELSE "ConnectionError"

\* a remote listing, broken targets and a disk listing are there before the
\* first call
ResolveInit ==
    /\ PowerInit
    /\ node_power_state = None
    /\ bootId = "D1"
    /\ bootList = <<"O1", "B1", "P1">>
    /\ broken = {}
    /\ ClientIdle
    /\ GatewayIdle
    /\ MgmtIdle
    /\ SignIdle
    /\ r_list \in ScanListings
    /\ r_broken \in ScanBroken
    /\ r_disks \in DiskListings
    /\ r_changes = 0
    /\ r_pc = "idle"
    /\ r_fn = None
    /\ r_script = None
    /\ result_ = <<>>
    /\ r_i = 1
    /\ r_reqs = <<>>
    /\ r_last = NoRequest
    /\ r_skipped = {}
    /\ r_ret = None
    /\ r_prev = [s \in Scripts |-> None]
    /\ r_clean = TRUE
    /\ ValidateIdle
    /\ AccountIdle

\* the outcome of the call that just ended is remembered for its script name
\* when the remote listing did not change while it ran
Remember ==
    IF /\ r_fn = "get_ipxe_script_id"
       /\ r_clean
       /\ r_ret \in AllBootIds \cup {NotFound}
       /\ r_prev[r_script] = None
    THEN [r_prev EXCEPT ![r_script] = r_ret]
    ELSE r_prev

\* somebody changes the server's script targets on the remote side
RemoteChange(l) ==
    /\ r_changes < MaxRemoteChanges
    /\ l # r_list
    /\ r_list' = l
    /\ r_changes' = r_changes + 1
    /\ r_prev' = [s \in Scripts |-> None]
    /\ r_clean' = FALSE
    /\ UNCHANGED <<r_broken, r_disks, r_pc, r_fn, r_script, result_, r_i,
                   r_reqs, r_last, r_skipped, r_ret,
                   powerVars, clientVars, signVars, validateVars, accountVars, gatewayVars, mgmtVars>>

\* client.py:169-176: get_ipxe_script_id(server_name, script_name) is called
GetIpxeScriptId(script_name) ==
    /\ r_pc = "idle"
    /\ r_prev' = Remember
    /\ r_fn' = "get_ipxe_script_id"
    /\ r_script' = script_name
    /\ r_pc' = "list"
    /\ result_' = <<>>
    /\ r_i' = ScanStart
    /\ r_reqs' = <<>>
    /\ r_last' = NoRequest
    /\ r_skipped' = {}
    /\ r_ret' = None
    /\ r_clean' = TRUE
    /\ UNCHANGED <<r_list, r_broken, r_disks, r_changes,
                   powerVars, clientVars, signVars, validateVars, accountVars, gatewayVars, mgmtVars>>

\* client.py:176-188: the GET of the ipxeCustomerScript listing
ListScripts(outcome) ==
    /\ r_pc = "list"
    /\ r_reqs' = Append(r_reqs, [method |-> "get", kind |-> "list", id |-> None])
    /\ r_last' = [kind |-> "list", id |-> None, outcome |-> outcome]
    /\ IF outcome = "ok"
       THEN /\ result_' = r_list
            /\ r_pc' = "scan"
            /\ UNCHANGED r_ret
       ELSE /\ r_ret' = Raised(outcome)
            /\ r_pc' = "idle"
            /\ UNCHANGED result_
    /\ UNCHANGED <<r_list, r_broken, r_disks, r_changes, r_fn, r_script, r_i,
                   r_skipped, r_prev, r_clean, powerVars, clientVars, signVars, validateVars, accountVars, gatewayVars, mgmtVars>>

\* client.py:190-214: one iteration, the detail GET of boot_id and the
\* comparison of its kernel field
FetchDetail(outcome) ==
    /\ r_pc = "scan"
    /\ r_i <= Len(result_)
    /\ LET boot_id == result_[r_i]
           answer == IF outcome = "other_error" THEN "other_error"
                     ELSE IF boot_id \in r_broken THEN "http_error"
                     ELSE "ok"
       IN /\ outcome # "http_error"
          /\ r_reqs' = Append(r_reqs, [method |-> "get", kind |-> "detail",
                                       id |-> boot_id])
          /\ r_last' = [kind |-> "detail", id |-> boot_id, outcome |-> answer]
          /\ IF answer # "ok"
             THEN IF OnDetailError(answer) = "continue"
                  THEN /\ r_skipped' = r_skipped \cup {boot_id}
                       /\ r_i' = r_i + 1
                       /\ UNCHANGED <<r_pc, r_ret>>
                  ELSE /\ r_ret' = Raised(answer)
                       /\ r_pc' = "idle"
                       /\ UNCHANGED <<r_skipped, r_i>>
             ELSE IF Matches(Get(detail[boot_id], "kernel", ""), r_script)
                  THEN /\ r_ret' = boot_id
                       /\ r_pc' = "idle"
                       /\ UNCHANGED <<r_skipped, r_i>>
                  ELSE /\ r_i' = r_i + 1
                       /\ UNCHANGED <<r_pc, r_ret, r_skipped>>
    /\ UNCHANGED <<r_list, r_broken, r_disks, r_changes, r_fn, r_script,
                   result_, r_prev, r_clean, powerVars, clientVars, signVars, validateVars, accountVars, gatewayVars, mgmtVars>>

\* client.py:216-222: the listing is exhausted, the not-found exception
Exhausted ==
    /\ r_pc = "scan"
    /\ r_i > Len(result_)
    /\ r_ret' = NotFound
    /\ r_pc' = "idle"
    /\ UNCHANGED <<r_list, r_broken, r_disks, r_changes, r_fn, r_script,
                   result_, r_i, r_reqs, r_last, r_skipped, r_prev, r_clean,
                   powerVars, clientVars, signVars, validateVars, accountVars, gatewayVars, mgmtVars>>

\* client.py:224-254: get_disk_boot_id(server_name)
GetDiskBootId(outcome) ==
    /\ r_pc = "idle"
    /\ r_prev' = Remember
    /\ r_fn' = "get_disk_boot_id"
    /\ r_script' = None
    /\ r_reqs' = <<[method |-> "get", kind |-> "disks", id |-> None]>>
    /\ r_last' = [kind |-> "disks", id |-> None, outcome |-> outcome]
    /\ r_skipped' = {}
    /\ r_i' = 1
    /\ r_clean' = TRUE
    /\ IF outcome = "ok"
       THEN /\ result_' = r_disks
            /\ r_ret' = IF r_disks # <<>> THEN FirstOf(r_disks) ELSE NotFound
       ELSE /\ result_' = <<>>
            /\ r_ret' = Raised(outcome)
    /\ UNCHANGED <<r_list, r_broken, r_disks, r_changes, r_pc,
                   powerVars, clientVars, signVars, validateVars, accountVars, gatewayVars, mgmtVars>>

ResolveNext ==
    \/ \E l \in ScanListings : RemoteChange(l)
    \/ \E s \in Scripts : GetIpxeScriptId(s)
    \/ \E outcome \in GetOutcomes : ListScripts(outcome)
    \/ \E outcome \in GetOutcomes : FetchDetail(outcome)
    \/ Exhausted
    \/ \E outcome \in GetOutcomes : GetDiskBootId(outcome)

ResolveSpec == ResolveInit /\ [][ResolveNext]_vars

(***************************************************************************)
(* Properties of the resolution of boot targets                            *)
(***************************************************************************)

\* the target at position p of the received listing could be fetched and its
\* kernel field is the wanted script name
KernelOf(b) == IF "kernel" \in DOMAIN detail[b] THEN detail[b].kernel ELSE ""
FetchableMatch(p) ==
    /\ result_[p] \notin r_broken
    /\ KernelOf(result_[p]) = r_script
Examined == {r_reqs[j].id : j \in {n \in 1..Len(r_reqs) : r_reqs[n].kind = "detail"}}
ScanEnded == r_fn = "get_ipxe_script_id" /\ r_pc = "idle" /\ r_ret # None

\* C15: get_ipxe_script_id returns the first boot id, in the order of the
\* listing it received, whose fetched detail has a kernel field equal to the
\* wanted script name, and raises not-found only when every listed target
\* has been examined and none matched.
C15_FirstExactMatch ==
    ScanEnded =>
        /\ r_ret \in AllBootIds =>
               /\ r_i \in 1..Len(result_)
               /\ result_[r_i] = r_ret
               /\ FetchableMatch(r_i)
               /\ \A q \in 1..(r_i - 1) : ~FetchableMatch(q)
        /\ r_ret = NotFound =>
               /\ Examined = {result_[p] : p \in 1..Len(result_)}
               /\ Len(r_reqs) = Len(result_) + 1
               /\ \A p \in 1..Len(result_) : ~FetchableMatch(p)

\* listing [O1 -> other.ipxe, B1 -> boot.ipxe], wanted boot.ipxe: B1
C15_Witness ==
    /\ ScanEnded
    /\ result_ = <<"O1", "B1">>
    /\ r_script = "boot.ipxe"
    /\ r_broken = {}
    /\ r_ret = "B1"

DiskEnded == r_fn = "get_disk_boot_id" /\ r_pc = "idle" /\ r_last.outcome = "ok"

\* C18: get_disk_boot_id returns the first boot id of the harddisk listing it
\* received, and raises not-found exactly when that listing is empty.
C18_FirstDiskOrNotFound ==
    DiskEnded =>
        /\ result_ = r_disks
        /\ (r_ret = NotFound) <=> (r_disks = <<>>)
        /\ r_disks # <<>> => r_ret = Head(r_disks)

C18_Witness ==
    /\ DiskEnded
    /\ r_disks = <<"D2", "D1">>
    /\ r_ret = "D2"

(***************************************************************************)
(* OvhApiPower.validate, OvhApiManagement.validate, BaseClient.validate_task*)
(***************************************************************************)

\* task.node.driver_info.get('server_name'): absent, empty or a name
ServerNames == {None, "", "ns1", "ns2", "ns3"}
ServerLists == { <<>>, <<"ns1">>, <<"ns2">>, <<"ns1", "ns2">>, <<"ns3", "ns1">> }
Interfaces == {"power", "management"}

\* power.py:136-138, client.py:50-52: the required fields info.get finds
\* absent or empty
missing_info(name) == IF name = None \/ name = "" THEN {"server_name"} ELSE {}

\* BaseClient.list_servers: the decoded body of the answer, a list
list_servers == [type |-> "list", items |-> v_servers]

\* .json() of what list_servers returned, as power.py:147 calls it: only a
\* response has that method
json(result) ==
    IF result.type = "response"
    THEN [raised |-> None, items |-> result.items]
    ELSE [raised |-> "AttributeError", items |-> <<>>]

\* server not in serverList
Elements(l) == {l[j] : j \in 1..Len(l)}

ValidateInit ==
    /\ PowerInit
    /\ node_power_state = None
    /\ bootId = "D1"
    /\ bootList = <<"O1", "B1", "P1">>
    /\ broken = {}
    /\ ClientIdle
    /\ GatewayIdle
    /\ MgmtIdle
    /\ SignIdle
    /\ ScanIdle
    /\ v_servers \in ServerLists
    /\ v_pc = "idle"
    /\ v_iface = None
    /\ v_name = None
    /\ v_reqs = <<>>
    /\ v_listed = FALSE
    /\ v_ret = None
    /\ AccountIdle

\* power.py:135-143 and management.py:45 with client.py:49-57: validate is
\* called and checks the required fields
Validate(iface, name) ==
    /\ v_pc = "idle"
    /\ v_iface' = iface
    /\ v_name' = name
    /\ v_reqs' = <<>>
    /\ v_listed' = FALSE
    /\ IF missing_info(name) # {}
       THEN /\ v_ret' = "MissingParameterValue"
            /\ UNCHANGED v_pc
       ELSE /\ v_ret' = None
            /\ v_pc' = "list_servers"
    /\ UNCHANGED <<v_servers, powerVars, clientVars, signVars, scanVars, accountVars, gatewayVars, mgmtVars>>

\* power.py:146-156 and client.py:59-64: the servers are listed and the
\* name is looked up
ListServers(outcome) ==
    /\ v_pc = "list_servers"
    /\ v_reqs' = Append(v_reqs, [method |-> "get", path |-> "/dedicated/server"])
    /\ v_pc' = "idle"
    /\ IF outcome # "ok"
       THEN /\ v_ret' = Raised(outcome)
            /\ UNCHANGED v_listed
       ELSE /\ v_listed' = TRUE
            /\ IF v_iface = "power"
               THEN LET serverList == json(list_servers)
                    IN v_ret' = IF serverList.raised # None
                                THEN serverList.raised
                                ELSE IF v_name \notin Elements(serverList.items)
                                THEN "InvalidParameterValue"
                                ELSE "returned"
               ELSE v_ret' = IF v_name \notin Elements(list_servers.items)
                             THEN "InvalidParameterValue"
                             ELSE "returned"
    /\ UNCHANGED <<v_servers, v_iface, v_name,
                   powerVars, clientVars, signVars, scanVars, accountVars, gatewayVars, mgmtVars>>

ValidateNext ==
    \/ \E iface \in Interfaces, name \in ServerNames : Validate(iface, name)
    \/ \E outcome \in GetOutcomes : ListServers(outcome)

ValidateSpec == ValidateInit /\ [][ValidateNext]_vars

\* C19: validate raises the missing-parameter error when server_name is
\* absent or empty, having issued no request; otherwise, once the servers
\* are listed, it raises the invalid-parameter error exactly when the name is
\* not in the list and returns when it is; it never issues anything but GETs.
C19_ValidateChecksMembership ==
    /\ (v_pc = "idle" /\ v_ret # None /\ v_name \in {None, ""}) =>
           (v_ret = "MissingParameterValue" /\ v_reqs = <<>>)
    /\ (v_pc = "idle" /\ v_listed) =>
           /\ v_ret \in {"InvalidParameterValue", "returned"}
           /\ (v_ret = "InvalidParameterValue") <=>
                  (\A j \in 1..Len(v_servers) : v_servers[j] # v_name)
    /\ \A j \in 1..Len(v_reqs) : v_reqs[j].method = "get"

(***************************************************************************)
(* Properties of the construction of the client                            *)
(***************************************************************************)

\* C20: a client whose construction succeeded has verified both configured
\* scripts: the power-off script and the boot script exist on the remote API.
C20_BothScriptsVerified ==
    \A i \in Instances :
        built[i] = "ready" => {boot_script, poweroff_script} \subseteq meScripts

(***************************************************************************)
(* Further properties of set_power_state and get_power_state               *)
(***************************************************************************)
RebootSucceeded == \E i \in Idx : calls[i].op = "reboot" /\ calls[i].ok

\* C22: a call with a power state outside POWER_ON, POWER_OFF, REBOOT has
\* raised without issuing any request, and the reported power state and the
\* server's boot target are what they were when the call started.
C22_UnsupportedStateRaisesAtOnce ==
    (pc # "idle" /\ power_state \notin {POWER_ON, POWER_OFF, REBOOT}) =>
        /\ pc = "raised"
        /\ calls = <<>>
        /\ node_power_state = prevPowerState
        /\ bootId = prevBootId
C22_Witness ==
    /\ pc = "raised"
    /\ power_state = SOFT_REBOOT
    /\ calls = <<>>
    /\ node_power_state = POWER_ON
    /\ bootId = "P1"

\* C25: a status fetch that answers init, todo or doing leaves the reported
\* power state as it is and goes back to sleeping; every status fetch is
\* made after exactly one sleep of 3 seconds; and a sleeping call does fetch
\* again.
C25_InProgressKeepsPolling ==
    /\ [][(pc = "get_task" /\ pc' \notin {"get_task", "raised"}
              /\ status' \in {"init", "todo", "doing"})
            => (pc' = "sleep" /\ node_power_state' = node_power_state)]_vars
    /\ [](pc = "get_task" => slept = 3)
    /\ [][pc' = "get_task" => pc \in {"sleep", "get_task"}]_vars
    /\ (pc = "sleep") ~> (pc = "get_task")
C25_Witness ==
    /\ pc = "get_task"
    /\ status = "doing"
    /\ slept = 3
    /\ node_power_state = REBOOT
    /\ power_state = POWER_OFF

\* C27: a call that raised before its reboot request succeeded leaves the
\* reported power state as it was when the call started; the reported state
\* is not written before the reboot request has succeeded, and is REBOOT
\* right after it.
C27_FailureLeavesReportedState ==
    /\ (pc = "raised" /\ ~RebootSucceeded) => node_power_state = prevPowerState
    /\ (pc \in {"set_boot", "reboot"}) => node_power_state = prevPowerState
    /\ (pc # "idle" /\ node_power_state # prevPowerState) => RebootSucceeded
    /\ (RebootSucceeded /\ status = None) => node_power_state = REBOOT
C27_Witness ==
    /\ pc = "raised"
    /\ Len(calls) = 3
    /\ calls[3].op = "reboot"
    /\ ~calls[3].ok
    /\ bootId # prevBootId
    /\ node_power_state = POWER_ON

C24_GetPowerStateReturnsNodeState ==
    [][gps_ret' # gps_ret =>
          /\ gps_ret'.type = "state"
          /\ Len(gps_ret'.items) = 1
          /\ gps_ret'.items[1] \in {POWER_OFF, POWER_ON, ERROR}
          /\ node_power_state \in {POWER_OFF, POWER_ON, ERROR}
                => gps_ret'.items[1] = node_power_state]_vars

(***************************************************************************)
(* The gateway operations of BaseClient: one request each, HTTP errors     *)
(* logged and raised again.                                                *)
(***************************************************************************)
GatewayOps == {"list_servers", "get_server", "hard_reboot_server",
               "set_boot_id", "get_task_status", "get_disk_boot_id"}
MaxGatewayCalls == 2

\* the session method each operation uses
Verb(op) ==
    CASE op = "hard_reboot_server" -> "post"
      [] op = "set_boot_id" -> "put"
      [] OTHER -> "get"

\* what raise_for_status raises, and what the session raises by itself
HttpErrors == {"HTTPError(404)", "HTTPError(500)"}
OtherErrors == {"ConnectionError"}
ErrorsOf(outcome) ==
    CASE outcome = "http_error" -> HttpErrors
      [] outcome = "other_error" -> OtherErrors
      [] OTHER -> {None}

\* decoded answers of the remote API to the six requests
GatewayAnswers ==
    { [servers |-> <<"ns1">>, bootId |-> "D1", taskId |-> "T1",
       status |-> "doing", disks |-> <<"D1">>],
      [servers |-> <<>>, bootId |-> "B1", taskId |-> "T2",
       status |-> "done", disks |-> <<>>] }

\* except requests.exceptions.HTTPError as e: ... raise e
Reraise_Wrapped(e) == "Exception"
Reraise(e) == e

\* what an operation returns from a decoded answer; get_disk_boot_id raises
\* when the listing is empty
GatewayRaises(op, result) ==
    IF op = "get_disk_boot_id" /\ result.disks = <<>> THEN "Exception" ELSE None
GatewayReturn(op, result) ==
    CASE op = "list_servers" -> result.servers
      [] op = "get_server" -> <<result.bootId>>
      [] op = "hard_reboot_server" -> <<result.taskId>>
      [] op = "get_task_status" -> <<result.status>>
      [] op = "get_disk_boot_id" ->
            IF result.disks = <<>> THEN NoRet ELSE <<FirstOf(result.disks)>>
      [] OTHER -> NoRet

GatewayInit ==
    /\ PowerInit
    /\ node_power_state = None
    /\ bootId = "D1"
    /\ bootList = <<"O1", "B1", "P1">>
    /\ broken = {}
    /\ ClientIdle
    /\ ExtIdle
    /\ AccountIdle

\* a gateway operation is called
GCall(op) ==
    /\ g_pc = "idle"
    /\ Len(g_hist) < MaxGatewayCalls
    /\ g_pc' = "call"
    /\ g_op' = op
    /\ g_reqs' = <<>>
    /\ g_err' = None
    /\ g_logged' = FALSE
    /\ g_raised' = None
    /\ g_ret' = NoRet
    /\ UNCHANGED <<g_hist, mgmtVars, powerVars, clientVars, signVars, scanVars,
                   validateVars, accountVars>>

\* the try block and its handler: the request is sent; an HTTPError is
\* logged and raised again, any other exception passes through
GSend(outcome, e, result) ==
    /\ g_pc = "call"
    /\ e \in ErrorsOf(outcome)
    /\ g_reqs' = Append(g_reqs, Verb(g_op))
    /\ g_err' = e
    /\ CASE outcome = "ok" ->
              /\ g_raised' = GatewayRaises(g_op, result)
              /\ g_logged' = (GatewayRaises(g_op, result) # None)
              /\ g_ret' = GatewayReturn(g_op, result)
         [] outcome = "http_error" ->
              /\ g_raised' = Reraise(e)
              /\ g_logged' = TRUE
              /\ g_ret' = NoRet
         [] OTHER ->
              /\ g_raised' = e
              /\ g_logged' = FALSE
              /\ g_ret' = NoRet
    /\ g_pc' = "done"
    /\ UNCHANGED <<g_op, g_hist, mgmtVars, powerVars, clientVars, signVars,
                   scanVars, validateVars, accountVars>>

\* the caller has the result or the exception
GFinish ==
    /\ g_pc = "done"
    /\ g_hist' = Append(g_hist, [op |-> g_op, reqs |-> g_reqs, err |-> g_err,
                                 raised |-> g_raised])
    /\ g_pc' = "idle"
    /\ g_op' = None
    /\ g_reqs' = <<>>
    /\ g_err' = None
    /\ g_logged' = FALSE
    /\ g_raised' = None
    /\ g_ret' = NoRet
    /\ UNCHANGED <<mgmtVars, powerVars, clientVars, signVars, scanVars,
                   validateVars, accountVars>>

GatewayNext ==
    \/ \E op \in GatewayOps : GCall(op)
    \/ \E outcome \in GetOutcomes : \E e \in HttpErrors \cup OtherErrors \cup {None} :
          \E result \in GatewayAnswers : GSend(outcome, e, result)
    \/ GFinish

GatewaySpec == GatewayInit /\ [][GatewayNext]_vars

\* C21: every gateway operation sends exactly one request; when the remote
\* API answered with an error, the operation has logged it and raised that
\* same error, has returned nothing, and sends nothing more.
C21_ErrorIsRaisedAgainWithoutRetry ==
    /\ g_pc = "done" =>
          /\ Len(g_reqs) = 1
          /\ g_err # None => (g_raised = g_err /\ g_ret = NoRet)
          /\ g_err \in HttpErrors => g_logged
    /\ \A i \in 1..Len(g_hist) :
          /\ Len(g_hist[i].reqs) = 1
          /\ g_hist[i].err # None => g_hist[i].raised = g_hist[i].err
C21_Witness ==
    /\ g_pc = "done"
    /\ g_op = "set_boot_id"
    /\ g_reqs = <<"put">>
    /\ g_err = "HTTPError(500)"
    /\ g_raised = "HTTPError(500)"
    /\ Len(g_hist) = 1
    /\ g_hist[1].op = "hard_reboot_server"
    /\ g_hist[1].err = "HTTPError(404)"

(***************************************************************************)
(* OvhApiManagement.set_boot_device and get_boot_device                    *)
(***************************************************************************)
Devices == {DISK, PXE, CDROM}

\* management.py:55
get_supported_boot_devices == <<PXE, DISK>>

\* management.py:75-80: the client method set_boot_device calls for a device
BootMethod_DiskForAll(device) == "boot_on_disk"
BootMethod(device) ==
    CASE device = DISK -> "boot_on_disk"
      [] device = PXE -> "chain_boot"
      [] OTHER -> None

\* client.py:256-290: the resolver whose result the client method sets
Resolver(method) ==
    IF method = "boot_on_disk" THEN "get_disk_boot_id" ELSE "get_ipxe_script_id"

\* client.py:224-254
get_disk_boot_id(result) == IF result = <<>> THEN NotFound ELSE FirstOf(result)

\* client.py:313-315
is_set_to_boot_on_disk(boot_id, disk_boot_ids) == boot_id \in Elements(disk_boot_ids)

\* management.py:90-92
get_boot_device_Inverted(on_disk) ==
    IF on_disk
    THEN [kind |-> "dict", boot_device |-> PXE, persistent |-> TRUE]
    ELSE [kind |-> "dict", boot_device |-> DISK, persistent |-> TRUE]
get_boot_device(on_disk) ==
    IF on_disk
    THEN [kind |-> "dict", boot_device |-> DISK, persistent |-> TRUE]
    ELSE [kind |-> "dict", boot_device |-> PXE, persistent |-> TRUE]

\* a call that returned None, and a call that raised
ReturnedNone == [kind |-> "none", boot_device |-> None, persistent |-> FALSE]
MRaise(exc) == [kind |-> exc, boot_device |-> None, persistent |-> FALSE]

MReq(op, arg, ok) == [op |-> op, arg |-> arg, ok |-> ok]

ManagementInit ==
    /\ PowerInit
    /\ node_power_state = POWER_ON
    /\ ClientIdle
    /\ SignIdle
    /\ ScanIdle
    /\ ValidateIdle
    /\ GatewayIdle
    /\ AccountIdle
    /\ m_pc = "idle"
    /\ m_fn = None
    /\ m_device = None
    /\ m_target = None
    /\ m_reqs = <<>>
    /\ m_ret = NoMRet
    /\ m_disks \in DiskListings
    /\ m_diskIds = <<>>
    /\ m_prevBoot = None
    /\ m_lastSet = NoSet
    /\ m_changes = 0

\* management.py:57-86: the call starts under the node's exclusive lock; a
\* device that is neither DISK nor PXE raises at once
SetBootDevice(device) ==
    /\ m_pc = "idle"
    /\ CanAcquire(lock)
    /\ lock' = "management"
    /\ m_fn' = "set_boot_device"
    /\ m_device' = device
    /\ m_prevBoot' = bootId
    /\ m_reqs' = <<>>
    /\ m_target' = None
    /\ IF BootMethod(device) = None
       THEN m_pc' = "done" /\ m_ret' = MRaise("InvalidParameterValue")
       ELSE m_pc' = "resolve" /\ m_ret' = NoMRet
    /\ UNCHANGED <<pc, power_state, timeout, task_id, status, node_power_state,
                   bootId, bootList, broken, remoteTask, calls, prevBootId,
                   prevPowerState, slept, gps_ret, m_disks, m_diskIds, m_lastSet,
                   m_changes, gatewayVars, clientVars, signVars, scanVars,
                   validateVars, accountVars>>

\* client.py:256-290: boot_on_disk and chain_boot resolve the boot id first
MResolve(outcome) ==
    /\ m_pc = "resolve"
    /\ LET op == Resolver(BootMethod(m_device))
           found == IF op = "get_disk_boot_id"
                    THEN get_disk_boot_id(m_disks)
                    ELSE get_ipxe_script_id(bootList, broken, boot_script)
       IN  IF outcome # "ok"
           THEN /\ m_reqs' = Append(m_reqs, MReq(op, None, FALSE))
                /\ m_ret' = MRaise(Raised(outcome))
                /\ m_pc' = "done"
                /\ UNCHANGED m_target
           ELSE /\ m_reqs' = Append(m_reqs, MReq(op, None, TRUE))
                /\ IF found = NotFound
                   THEN /\ m_ret' = MRaise("Exception")
                        /\ m_pc' = "done"
                        /\ UNCHANGED m_target
                   ELSE /\ m_target' = found
                        /\ m_pc' = "set"
                        /\ UNCHANGED m_ret
    /\ UNCHANGED <<powerVars, m_fn, m_device, m_disks, m_diskIds, m_prevBoot,
                   m_lastSet, m_changes, gatewayVars, clientVars, signVars,
                   scanVars, validateVars, accountVars>>

\* client.py:151-167: set_boot_id puts the resolved boot id
MSetBootId(outcome) ==
    /\ m_pc = "set"
    /\ m_reqs' = Append(m_reqs, MReq("set_boot_id", m_target, outcome = "ok"))
    /\ IF outcome = "ok"
       THEN /\ bootId' = m_target
            /\ m_ret' = ReturnedNone
            /\ m_lastSet' = [device |-> m_device, target |-> m_target]
       ELSE /\ m_ret' = MRaise(Raised(outcome))
            /\ UNCHANGED <<bootId, m_lastSet>>
    /\ m_pc' = "done"
    /\ UNCHANGED <<pc, power_state, timeout, task_id, status, node_power_state,
                   bootList, broken, remoteTask, calls, prevBootId,
                   prevPowerState, slept, lock, gps_ret, m_fn, m_device,
                   m_target, m_disks, m_diskIds, m_prevBoot, m_changes,
                   gatewayVars, clientVars, signVars, scanVars, validateVars,
                   accountVars>>

\* management.py:88-89: get_boot_device starts; it takes no exclusive lock
GetBootDevice ==
    /\ m_pc = "idle"
    /\ m_fn' = "get_boot_device"
    /\ m_pc' = "disks"
    /\ m_device' = None
    /\ m_target' = None
    /\ m_reqs' = <<>>
    /\ m_ret' = NoMRet
    /\ m_diskIds' = <<>>
    /\ m_prevBoot' = bootId
    /\ UNCHANGED <<powerVars, m_disks, m_lastSet, m_changes, gatewayVars,
                   clientVars, signVars, scanVars, validateVars, accountVars>>

\* client.py:299-311: is_set_to_boot_on_disk lists the harddisk boot ids
MListDisks(outcome) ==
    /\ m_pc = "disks"
    /\ m_reqs' = Append(m_reqs, MReq("list_disk_boot_ids", None, outcome = "ok"))
    /\ IF outcome = "ok"
       THEN /\ m_diskIds' = m_disks
            /\ m_pc' = "server"
            /\ UNCHANGED m_ret
       ELSE /\ m_ret' = MRaise(Raised(outcome))
            /\ m_pc' = "done"
            /\ UNCHANGED m_diskIds
    /\ UNCHANGED <<powerVars, m_fn, m_device, m_target, m_disks, m_prevBoot,
                   m_lastSet, m_changes, gatewayVars, clientVars, signVars,
                   scanVars, validateVars, accountVars>>

\* client.py:313-315 and management.py:90-92: the server's bootId is fetched
\* and looked up in the list; the answer becomes the returned dictionary
MGetServer(outcome) ==
    /\ m_pc = "server"
    /\ m_reqs' = Append(m_reqs, MReq("get_server", None, outcome = "ok"))
    /\ IF outcome = "ok"
       THEN m_ret' = get_boot_device(is_set_to_boot_on_disk(bootId, m_diskIds))
       ELSE m_ret' = MRaise(Raised(outcome))
    /\ m_pc' = "done"
    /\ UNCHANGED <<powerVars, m_fn, m_device, m_target, m_disks, m_diskIds,
                   m_prevBoot, m_lastSet, m_changes, gatewayVars, clientVars,
                   signVars, scanVars, validateVars, accountVars>>

\* the caller has the result or the exception; the task releases its lock
MFinish ==
    /\ m_pc = "done"
    /\ m_pc' = "idle"
    /\ lock' = IF m_fn = "set_boot_device" THEN None ELSE lock
    /\ m_fn' = None
    /\ m_device' = None
    /\ m_target' = None
    /\ m_reqs' = <<>>
    /\ m_ret' = NoMRet
    /\ m_diskIds' = <<>>
    /\ m_prevBoot' = None
    /\ UNCHANGED <<pc, power_state, timeout, task_id, status, node_power_state,
                   bootId, bootList, broken, remoteTask, calls, prevBootId,
                   prevPowerState, slept, gps_ret, m_disks, m_lastSet, m_changes,
                   gatewayVars, clientVars, signVars, scanVars, validateVars,
                   accountVars>>

\* somebody else changes the server's boot target on the remote API
RemoteBootChange(b) ==
    /\ m_changes < MaxRemoteChanges
    /\ b # bootId
    /\ bootId' = b
    /\ m_changes' = m_changes + 1
    /\ UNCHANGED <<pc, power_state, timeout, task_id, status, node_power_state,
                   bootList, broken, remoteTask, calls, prevBootId,
                   prevPowerState, slept, lock, gps_ret, m_pc, m_fn, m_device,
                   m_target, m_reqs, m_ret, m_disks, m_diskIds, m_prevBoot,
                   m_lastSet, gatewayVars, clientVars, signVars, scanVars,
                   validateVars, accountVars>>

ManagementNext ==
    \/ \E device \in Devices : SetBootDevice(device)
    \/ \E outcome \in GetOutcomes : MResolve(outcome)
    \/ \E outcome \in GetOutcomes : MSetBootId(outcome)
    \/ GetBootDevice
    \/ \E outcome \in GetOutcomes : MListDisks(outcome)
    \/ \E outcome \in GetOutcomes : MGetServer(outcome)
    \/ MFinish
    \/ \E b \in {"D1", "D2", "B1", "P1"} : RemoteBootChange(b)

ManagementSpec == ManagementInit /\ [][ManagementNext]_vars

SetReturned == m_fn = "set_boot_device" /\ m_pc = "done" /\ m_ret.kind = "none"
LastReq == m_reqs[Len(m_reqs)]

\* C23: a set_boot_device(DISK) that returned has set the first harddisk
\* boot id of the server; a set_boot_device(PXE) that returned has set a
\* boot id whose script is the configured boot script; a call with any other
\* device has raised InvalidParameterValue without a request, and no step of
\* such a call changes the server's boot target.
C23_DeviceSelectsTheTarget ==
    /\ [](SetReturned /\ m_device = DISK =>
            /\ Len(m_reqs) = 2
            /\ m_reqs[1].op = "get_disk_boot_id"
            /\ LastReq = MReq("set_boot_id", m_disks[1], TRUE))
    /\ [](SetReturned /\ m_device = PXE =>
            /\ Len(m_reqs) = 2
            /\ m_reqs[1].op = "get_ipxe_script_id"
            /\ LastReq.op = "set_boot_id"
            /\ LastReq.ok
            /\ LastReq.arg \in Elements(bootList) \ broken
            /\ kernel[LastReq.arg] = boot_script)
    /\ [](m_fn = "set_boot_device" /\ m_device \notin {DISK, PXE} =>
            /\ m_pc = "done"
            /\ m_ret.kind = "InvalidParameterValue"
            /\ m_reqs = <<>>)
    /\ [][(m_fn = "set_boot_device" /\ m_fn' = "set_boot_device"
             /\ m_device \notin {DISK, PXE}) => bootId' = bootId \/ m_changes' # m_changes]_vars
    /\ [][(SetReturned' /\ ~SetReturned) => bootId' = m_target]_vars
C23_Witness ==
    /\ SetReturned
    /\ m_device = PXE
    /\ m_prevBoot = "D1"
    /\ bootId = "B1"
    /\ bootList = <<"O1", "B1", "P1">>
C23_WitnessDisk ==
    /\ SetReturned
    /\ m_device = DISK
    /\ m_disks = <<"D2", "D1">>
    /\ m_prevBoot = "P1"
    /\ bootId = "D2"
C23_WitnessOther ==
    /\ m_fn = "set_boot_device"
    /\ m_device = CDROM
    /\ m_ret.kind = "InvalidParameterValue"
    /\ bootId = m_prevBoot

\* C30: get_boot_device answers DISK exactly when the server's bootId is one
\* of its harddisk boot ids, and PXE otherwise; hence, after a
\* set_boot_device(d) that returned, while the server's bootId is still the
\* one that call set, get_boot_device answers d.
C30_GetAfterSetReturnsDevice ==
    [][(m_pc = "server" /\ m_pc' = "done" /\ m_ret'.kind = "dict") =>
          /\ m_ret'.boot_device = DISK <=> bootId \in Elements(m_disks)
          /\ m_ret'.boot_device = PXE <=> bootId \notin Elements(m_disks)
          /\ m_ret'.persistent
          /\ (m_lastSet.device # None /\ bootId = m_lastSet.target)
                => m_ret'.boot_device = m_lastSet.device]_vars
C30_Witness ==
    /\ m_fn = "get_boot_device"
    /\ m_pc = "done"
    /\ m_ret.kind = "dict"
    /\ m_ret.boot_device = PXE
    /\ m_lastSet = [device |-> PXE, target |-> "B1"]
    /\ m_prevBoot = "B1"
    /\ m_changes = 0

(***************************************************************************)
(* set_power_state and set_boot_device of the same node, each called under *)
(* the node's exclusive lock.                                              *)
(***************************************************************************)
ConcInit ==
    /\ PowerInit
    /\ node_power_state = POWER_ON
    /\ bootId = "D1"
    /\ bootList = <<"O1", "B1", "P1">>
    /\ broken = {}
    /\ ClientIdle
    /\ ExtIdle
    /\ AccountIdle

ConcNext ==
    \/ \E ps \in {POWER_ON, POWER_OFF, REBOOT, SOFT_REBOOT}, to \in {None, "1s"} :
          Enter(ps, to)
    \/ \E o \in {"ok", "list_error", "put_error"} : SetBootScript(o)
    \/ \E o \in Outcomes, tid \in TaskIds : RebootServer(o, tid)
    \/ Sleep
    \/ \E o \in Outcomes : GetTask(o)
    \/ Finish
    \/ \E s \in Statuses : RemoteTaskAdvance(s)
    \/ \E device \in Devices : SetBootDevice(device)
    \/ \E outcome \in GetOutcomes : MResolve(outcome)
    \/ \E outcome \in GetOutcomes : MSetBootId(outcome)
    \/ MFinish

ConcSpec == ConcInit /\ [][ConcNext]_vars

====
